---- MODULE Spec2Model ----
(***************************************************************************)
(* A model of gomodifytype (src/main.go): the pipeline                     *)
(*   parseConfig -> validate -> parse -> findSelection -> rewrite -> format *)
(* over a parsed Go file.  Strings are sequences of one-character strings, *)
(* so that "exactly equal textual spelling" is an equality of characters.  *)
(* The syntax tree is go/ast's: a file of declarations, type expressions   *)
(* (Ident, StarExpr, ArrayType, SelectorExpr, StructType) and a table of   *)
(* the file's struct type nodes, keyed by the node's identity (its Pos).   *)
(***************************************************************************)
EXTENDS Integers, Sequences, FiniteSets, TLC

VARIABLES pc, cfg, node, parsed, prev, start, end, err, out, passes

vars == <<pc, cfg, node, parsed, prev, start, end, err, out, passes>>

(* ------------------------------ bounds --------------------------------- *)

\* longest -line argument, in characters
MaxLineLen == 3
\* deepest chain of records nested in one field's type
MaxNest == 2
\* rewrite passes over one tree (run() makes one, RewriteAgain the others)
MaxPasses == 3

(* ------------------------------ strings -------------------------------- *)

s_int == <<"i", "n", "t">>
s_T   == <<"T">>
s_Raw == <<"R", "a", "w">>
s_p   == <<"p">>
s_foo == <<"f", "o", "o">>
s_bar == <<"b", "a", "r">>
s_Baz == <<"B", "a", "z">>
s_qux == <<"q", "u", "x">>
s_Two == <<"T", "w", "o">>
s_a   == <<"a">>
s_x   == <<"x">>
s_f   == <<"f">>
s_v   == <<"v">>
s_w   == <<"w">>
s_tag == <<"j", ":", "t">>
s_file == <<"a", ".", "g", "o">>
s_struct == <<"s", "t", "r", "u", "c", "t", "{">>
s_starT == <<"*", "T">>
s_pT == <<"p", ".", "T">>
s_structxRaw == s_struct \o s_x \o <<" ">> \o s_Raw \o <<"}">>

RECURSIVE Join(_, _)
\* strings.Join: the strings of ss with sep between them
Join(ss, sep) ==
    IF ss = <<>> THEN <<>>
    ELSE IF Len(ss) = 1 THEN ss[1]
    ELSE ss[1] \o sep \o Join(Tail(ss), sep)

(* ------------------------------ go/ast --------------------------------- *)

\* the line of token.NoPos
NoLine == 0

IdentAt(name, line) ==
    [kind |-> "Ident", name |-> name, line |-> line, x |-> <<>>, ref |-> 0]
StarExpr(x, line) ==
    [kind |-> "StarExpr", name |-> <<>>, line |-> line, x |-> <<x>>, ref |-> 0]
ArrayType(elt, line) ==
    [kind |-> "ArrayType", name |-> <<>>, line |-> line, x |-> <<elt>>, ref |-> 0]
SelectorExpr(x, sel) ==
    [kind |-> "SelectorExpr", name |-> sel.name, line |-> sel.line,
     x |-> <<x>>, ref |-> 0]
\* a reference to the struct type node ref of the file's table, which holds
\* the node's position
StructType(ref) ==
    [kind |-> "StructType", name |-> <<>>, line |-> NoLine, x |-> <<>>,
     ref |-> ref]

\* ast.NewIdent: an identifier without position
NewIdent(name) == IdentAt(name, NoLine)

\* ast.Field: Names (identifiers), Type, Tag (none, or one literal)
Field(names, type, tag) == [names |-> names, type |-> type, tag |-> tag]
Tag(value, line) == <<[value |-> value, line |-> line]>>
NoTag == <<>>

\* a struct type node: the line of its struct keyword, its fields, the line
\* of its closing brace
Struct(line, fields, rbrace) ==
    [line |-> line, fields |-> fields, rbrace |-> rbrace]

\* a declaration context that binds a type expression to a name
Decl(kind, names, type) == [kind |-> kind, names |-> names, type |-> type]

\* a parsed file: its declarations, its struct nodes, its line table's size
File(decls, structs, lines) ==
    [decls |-> decls, structs |-> structs, lines |-> lines]

NoFile == File(<<>>, <<>>, 0)

RECURSIVE ExprPos(_, _)
\* ast.Expr.Pos as a line: a selector starts where its operand starts
ExprPos(structs, e) ==
    CASE e.kind = "StructType" -> structs[e.ref].line
      [] e.kind = "SelectorExpr" -> ExprPos(structs, e.x[1])
      [] OTHER -> e.line

RECURSIVE ExprEnd(_, _)
\* ast.Expr.End as a line
ExprEnd(structs, e) ==
    CASE e.kind = "StructType" -> structs[e.ref].rbrace
      [] e.kind \in {"StarExpr", "ArrayType"} -> ExprEnd(structs, e.x[1])
      [] OTHER -> e.line

\* ast.Field.Pos as a line: the first name, else the type
FieldPos(structs, f) ==
    IF Len(f.names) > 0 THEN f.names[1].line ELSE ExprPos(structs, f.type)

\* ast.Field.End as a line: the tag, else the type
FieldEnd(structs, f) ==
    IF Len(f.tag) > 0 THEN f.tag[1].line ELSE ExprEnd(structs, f.type)

RECURSIVE FieldString(_, _)
RECURSIVE ExprString(_, _)
\* types.ExprString: the textual spelling of a type expression
ExprString(structs, e) ==
    CASE e.kind = "Ident" -> e.name
      [] e.kind = "StarExpr" -> <<"*">> \o ExprString(structs, e.x[1])
      [] e.kind = "ArrayType" -> <<"[", "]">> \o ExprString(structs, e.x[1])
      [] e.kind = "SelectorExpr" ->
            ExprString(structs, e.x[1]) \o <<".">> \o e.name
      [] e.kind = "StructType" ->
            s_struct
            \o Join([i \in 1..Len(structs[e.ref].fields) |->
                        FieldString(structs, structs[e.ref].fields[i])],
                    <<";", " ">>)
            \o <<"}">>

\* one field of writeFieldList: the names, a blank, the type; the tag is not
\* written
FieldString(structs, f) ==
    Join([i \in 1..Len(f.names) |-> f.names[i].name], <<",", " ">>)
    \o (IF Len(f.names) > 0 THEN <<" ">> ELSE <<>>)
    \o ExprString(structs, f.type)

(* --------------------------- the parsed files -------------------------- *)

\* 1 package p
\* 2 type foo struct {
\* 3     bar int "j:t"
\* 4     qux, Baz int
\* 5     x *T
\* 6 }
\* 7 type Two struct { bar int; Baz p.T }
FileRecords ==
    File(<<Decl("TypeSpec", <<s_foo>>, StructType(1)),
           Decl("TypeSpec", <<s_Two>>, StructType(2))>>,
         <<Struct(2, <<Field(<<IdentAt(s_bar, 3)>>, IdentAt(s_int, 3), Tag(s_tag, 3)),
                    Field(<<IdentAt(s_qux, 4), IdentAt(s_Baz, 4)>>,
                          IdentAt(s_int, 4), NoTag),
                    Field(<<IdentAt(s_x, 5)>>,
                          StarExpr(IdentAt(s_T, 5), 5), NoTag)>>, 6),
           Struct(7, <<Field(<<IdentAt(s_bar, 7)>>, IdentAt(s_int, 7), NoTag),
                    Field(<<IdentAt(s_Baz, 7)>>,
                          SelectorExpr(IdentAt(s_p, 7), IdentAt(s_T, 7)),
                          NoTag)>>, 7)>>,
         7)

\* 1 package p
\* 2 type foo struct {
\* 3     int
\* 4     *T
\* 5     p.T
\* 6     bar *T
\* 7 }
FileEmbedded ==
    File(<<Decl("TypeSpec", <<s_foo>>, StructType(1))>>,
         <<Struct(2, <<Field(<<>>, IdentAt(s_int, 3), NoTag),
                    Field(<<>>, StarExpr(IdentAt(s_T, 4), 4), NoTag),
                    Field(<<>>, SelectorExpr(IdentAt(s_p, 5), IdentAt(s_T, 5)),
                          NoTag),
                    Field(<<IdentAt(s_bar, 6)>>,
                          StarExpr(IdentAt(s_T, 6), 6), NoTag)>>, 7)>>,
         7)

\*  1 package p
\*  2 type foo struct {
\*  3     bar int
\*  4 }
\*  5 func f(foo struct {
\*  6     Baz int
\*  7 }) {
\*  8 }
\*  9 var v *[]struct {
\* 10     bar *T
\* 11 }
\* 12 var w = struct {
\* 13     bar int
\* 14 }{}
FileContexts ==
    File(<<Decl("TypeSpec", <<s_foo>>, StructType(1)),
           Decl("Field", <<s_foo>>, StructType(2)),
           Decl("ValueSpec", <<s_v>>,
                StarExpr(ArrayType(StructType(3), 9), 9)),
           Decl("CompositeLit", <<>>, StructType(4))>>,
         <<Struct(2, <<Field(<<IdentAt(s_bar, 3)>>, IdentAt(s_int, 3), NoTag)>>, 4),
           Struct(5, <<Field(<<IdentAt(s_Baz, 6)>>, IdentAt(s_int, 6), NoTag)>>, 7),
           Struct(9, <<Field(<<IdentAt(s_bar, 10)>>,
                          StarExpr(IdentAt(s_T, 10), 10), NoTag)>>, 11),
           Struct(12, <<Field(<<IdentAt(s_bar, 13)>>, IdentAt(s_int, 13), NoTag)>>,
                  14)>>,
         14)

\* 1 package p
\* 2 type foo struct {
\* 3     bar struct {
\* 4         Baz int
\* 5         qux *T
\* 6     }
\* 7     Baz int
\* 8 }
FileNested ==
    File(<<Decl("TypeSpec", <<s_foo>>, StructType(1))>>,
         <<Struct(2, <<Field(<<IdentAt(s_bar, 3)>>, StructType(2), NoTag),
                    Field(<<IdentAt(s_Baz, 7)>>, IdentAt(s_int, 7), NoTag)>>, 8),
           Struct(3, <<Field(<<IdentAt(s_Baz, 4)>>, IdentAt(s_int, 4), NoTag),
                    Field(<<IdentAt(s_qux, 5)>>,
                          StarExpr(IdentAt(s_T, 5), 5), NoTag)>>, 6)>>,
         8)

\* 1 package p
\* 2 type foo struct {
\* 3     a struct{ x struct{ x Raw } }      (k records deep, here k = 2)
\* 4 }
FileChain(k) ==
    File(<<Decl("TypeSpec", <<s_foo>>, StructType(1))>>,
         [id \in 1..(k + 1) |->
            IF id = 1
            THEN Struct(2, <<Field(<<IdentAt(s_a, 3)>>, StructType(2), NoTag)>>,
                        4)
            ELSE Struct(3, <<Field(<<IdentAt(s_x, 3)>>,
                                IF id = k + 1 THEN IdentAt(s_Raw, 3)
                                ELSE StructType(id + 1),
                                NoTag)>>, 3)],
         4)

\* the files parse() is run on
Files ==
    {FileRecords, FileEmbedded, FileContexts, FileNested}
    \cup {FileChain(k) : k \in 1..MaxNest}

(* ------------------------------- errors -------------------------------- *)

Error(msg, args) == [msg |-> msg, args |-> args]
nil == Error("", <<>>)

\* the messages of the errors
NoFileError == "no file is passed"
NoLocatorError == "-line, -struct or -all is not passed"
ExclusiveError == "-line or -struct cannot be used together. pick one"
FieldWithoutStructError == "-field is requiring -struct"
SyntaxError == "strconv.Atoi: invalid syntax"
RangeError == "wrong range. start line cannot be larger than end line"
NoStructError == "struct name does not exist"
NoFieldError == "struct %q doesn't have field name %q"
WriteError == "write failed"
ParseError == "syntax error"

(* ------------------------------- config -------------------------------- *)

\* the upper-case letters of the names in use (unicode.IsUpper)
Upper == {"A", "B", "C", "D", "E", "F", "G", "H", "I", "J", "K", "L", "M",
          "N", "O", "P", "Q", "R", "S", "T", "U", "V", "W", "X", "Y", "Z"}

\* isPublicName: the first character, when there is one, is upper-case
isPublicName(name) == Len(name) > 0 /\ name[1] \in Upper

\* config: the flags parseConfig stores, and the span rewrite records
Config(file, write, line, structName, fieldName, all, from, to, skip) ==
    [file |-> file, write |-> write, line |-> line,
     structName |-> structName, fieldName |-> fieldName, all |-> all,
     from |-> from, to |-> to, skipUnexportedFields |-> skip,
     start |-> 0, end |-> 0]

\* validate without the rule that -line and -struct exclude each other
validate_noExclusion(c) ==
    IF c.file = <<>> THEN Error(NoFileError, <<>>)
    ELSE IF c.line = <<>> /\ c.structName = <<>> /\ ~c.all
    THEN Error(NoLocatorError, <<>>)
    ELSE IF c.fieldName # <<>> /\ c.structName = <<>>
    THEN Error(FieldWithoutStructError, <<>>)
    ELSE nil

\* validate: the first rule the flags break, or nil
validate(c) ==
    IF c.file = <<>> THEN Error(NoFileError, <<>>)
    ELSE IF c.line = <<>> /\ c.structName = <<>> /\ ~c.all
    THEN Error(NoLocatorError, <<>>)
    ELSE IF c.line # <<>> /\ c.structName # <<>>
    THEN Error(ExclusiveError, <<>>)
    ELSE IF c.fieldName # <<>> /\ c.structName = <<>>
    THEN Error(FieldWithoutStructError, <<>>)
    ELSE nil

(* ------------------------------ Selector ------------------------------- *)

\* what a selector returns: (start, end, err)
Selection(s, e, error) == [start |-> s, end |-> e, err |-> error]

RECURSIVE Split(_, _)
\* strings.Split(s, sep) for a one-character sep: never empty, "" gives <<"">>
Split(s, sep) ==
    IF \A i \in 1..Len(s) : s[i] # sep THEN <<s>>
    ELSE LET i == CHOOSE j \in 1..Len(s) :
                     s[j] = sep /\ \A k \in 1..(j - 1) : s[k] # sep
         IN  <<SubSeq(s, 1, i - 1)>> \o Split(SubSeq(s, i + 1, Len(s)), sep)

DecimalDigits == <<"0", "1", "2", "3", "4", "5", "6", "7", "8", "9">>

IsDigit(ch) == \E i \in 1..Len(DecimalDigits) : DecimalDigits[i] = ch

DigitValue(ch) == (CHOOSE i \in 1..Len(DecimalDigits) : DecimalDigits[i] = ch) - 1

RECURSIVE Decimal(_, _)
\* the value of the digits ds after the value acc of the digits before them
Decimal(ds, acc) ==
    IF ds = <<>> THEN acc
    ELSE Decimal(Tail(ds), acc * Len(DecimalDigits) + DigitValue(Head(ds)))

\* strconv.Atoi: an optional sign and one or more decimal digits, else a
\* syntax error
Atoi(s) ==
    LET signed == Len(s) > 0 /\ s[1] \in {"+", "-"}
        ds == IF signed THEN Tail(s) ELSE s
    IN  IF ds = <<>> \/ \E i \in 1..Len(ds) : ~IsDigit(ds[i])
        THEN [val |-> 0, err |-> Error(SyntaxError, <<s>>)]
        ELSE [val |-> IF signed /\ s[1] = "-" THEN 0 - Decimal(ds, 0)
                      ELSE Decimal(ds, 0),
              err |-> nil]

\* lineSelection with the range test start >= end
lineSelection_strict(c, file) ==
    LET parts == Split(c.line, ",")
        first == Atoi(parts[1])
        second == IF Len(parts) = 2 THEN Atoi(parts[2]) ELSE first
    IN  IF first.err # nil THEN Selection(0, 0, first.err)
        ELSE IF second.err # nil THEN Selection(0, 0, second.err)
        ELSE IF first.val >= second.val
        THEN Selection(0, 0, Error(RangeError, <<>>))
        ELSE Selection(first.val, second.val, nil)

\* config.lineSelection: the span the -line argument spells
lineSelection(c, file) ==
    LET parts == Split(c.line, ",")
        first == Atoi(parts[1])
        second == IF Len(parts) = 2 THEN Atoi(parts[2]) ELSE first
    IN  IF first.err # nil THEN Selection(0, 0, first.err)
        ELSE IF second.err # nil THEN Selection(0, 0, second.err)
        ELSE IF first.val > second.val
        THEN Selection(0, 0, Error(RangeError, <<>>))
        ELSE Selection(first.val, second.val, nil)

RECURSIVE deref(_)
\* deref: the expression under its leading "*" and "[]"
deref(x) ==
    IF x.kind \in {"StarExpr", "ArrayType"} THEN deref(x.x[1]) ELSE x

\* the visit of one TypeSpec, CompositeLit, ValueSpec or Field node with type
\* t: when t dereferences to a struct type, index it under the node's name
collectNode(structs, kind, names, t) ==
    LET structName == IF kind = "CompositeLit" \/ Len(names) = 0 THEN <<>>
                      ELSE names[1]
        x == deref(t)
    IN  IF x.kind # "StructType" THEN structs
        ELSE (x.ref :> structName) @@ structs

RECURSIVE collectExpr(_, _, _)
RECURSIVE collectFields(_, _, _, _)
\* ast.Inspect below a type expression, every Field of a struct type visited
\* as a node and then walked
collectExpr(structs, file, e) ==
    CASE e.kind = "StructType" -> collectFields(structs, file, e.ref, 1)
      [] e.kind \in {"StarExpr", "ArrayType", "SelectorExpr"} ->
            collectExpr(structs, file, e.x[1])
      [] OTHER -> structs

collectFields(structs, file, ref, i) ==
    IF i > Len(file.structs[ref].fields) THEN structs
    ELSE LET f == file.structs[ref].fields[i]
             names == [j \in 1..Len(f.names) |-> f.names[j].name]
         IN  collectFields(
                 collectExpr(collectNode(structs, "Field", names, f.type),
                             file, f.type),
                 file, ref, i + 1)

RECURSIVE collectDecls(_, _, _)
collectDecls(structs, file, i) ==
    IF i > Len(file.decls) THEN structs
    ELSE LET d == file.decls[i]
         IN  collectDecls(
                 collectExpr(collectNode(structs, d.kind, d.names, d.type),
                             file, d.type),
                 file, i + 1)

\* collectStructs: the struct type nodes of the file by position, each with
\* the name of the declaration that binds it
collectStructs(file) == collectDecls([p \in {} |-> <<>>], file, 1)

\* config.fieldSelection: the lines of the last field of the struct that
\* declares the name
fieldSelection(c, file, st) ==
    LET fields == file.structs[st].fields
        hits == {i \in 1..Len(fields) :
                    \E j \in 1..Len(fields[i].names) :
                        fields[i].names[j].name = c.fieldName}
    IN  IF hits = {}
        THEN Selection(0, 0, Error(NoFieldError,
                                   <<c.structName, c.fieldName>>))
        ELSE LET encField == fields[CHOOSE i \in hits : \A k \in hits : k <= i]
             IN  Selection(FieldPos(file.structs, encField),
                           FieldEnd(file.structs, encField), nil)

\* structSelection keeping a struct of the index whatever its name
structSelection_anyName(c, file) ==
    LET structs == collectStructs(file)
        named == DOMAIN structs
    IN  IF named = {}
        THEN {Selection(0, 0, Error(NoStructError, <<>>))}
        ELSE {IF c.fieldName # <<>> THEN fieldSelection(c, file, encStruct)
              ELSE Selection(file.structs[encStruct].line,
                             file.structs[encStruct].rbrace, nil)
              : encStruct \in named}

\* config.structSelection: the results of the range over the index, which Go
\* makes in no fixed order, so that any struct of the name may be the one kept
structSelection(c, file) ==
    LET structs == collectStructs(file)
        named == {p \in DOMAIN structs : structs[p] = c.structName}
    IN  IF named = {}
        THEN {Selection(0, 0, Error(NoStructError, <<>>))}
        ELSE {IF c.fieldName # <<>> THEN fieldSelection(c, file, encStruct)
              ELSE Selection(file.structs[encStruct].line,
                             file.structs[encStruct].rbrace, nil)
              : encStruct \in named}

\* allSelection ending one line early
allSelection_short(c, file) == Selection(1, file.lines - 1, nil)

\* config.allSelection: every line of the file
allSelection(c, file) == Selection(1, file.lines, nil)

\* config.findSelection: the results of the selector of the first locator
\* that is set, in the order line, struct, all
findSelection(c, file) ==
    IF c.line # <<>> THEN {lineSelection(c, file)}
    ELSE IF c.structName # <<>> THEN structSelection(c, file)
    ELSE IF c.all THEN {allSelection(c, file)}
    ELSE {Selection(0, 0, Error(NoLocatorError, <<>>))}

(* ------------------------------ Rewriter ------------------------------- *)

\* firstName without the visibility filter
firstName_unfiltered(c, names) ==
    IF names = <<>> THEN <<>> ELSE names[1].name

RECURSIVE firstName(_, _)
\* the first declared name that passes the visibility filter, "" if none
firstName(c, names) ==
    IF names = <<>> THEN <<>>
    ELSE IF ~c.skipUnexportedFields \/ isPublicName(names[1].name)
    THEN names[1].name
    ELSE firstName(c, Tail(names))

\* rewriteField with the span test line < end
rewriteField_exclusiveEnd(c, structs, f, s, e) ==
    LET line == FieldPos(structs, f)
        fieldName ==
            IF Len(f.names) # 0 THEN firstName(c, f.names)
            ELSE IF f.type.kind = "Ident" /\ ~c.skipUnexportedFields
            THEN f.type.name
            ELSE <<>>
    IN  IF ~(s <= line /\ line < e) THEN f
        ELSE IF Len(f.names) = 0 /\ f.type.kind # "Ident" THEN f
        ELSE IF fieldName = <<>> THEN f
        ELSE IF ExprString(structs, f.type) = c.from
        THEN [f EXCEPT !.type = NewIdent(c.to)]
        ELSE f

\* rewriteField that gives an anonymous field no name
rewriteField_skipsEmbedded(c, structs, f, s, e) ==
    LET line == FieldPos(structs, f)
        fieldName == IF Len(f.names) # 0 THEN firstName(c, f.names) ELSE <<>>
    IN  IF ~(s <= line /\ line <= e) THEN f
        ELSE IF Len(f.names) = 0 /\ f.type.kind # "Ident" THEN f
        ELSE IF fieldName = <<>> THEN f
        ELSE IF ExprString(structs, f.type) = c.from
        THEN [f EXCEPT !.type = NewIdent(c.to)]
        ELSE f

\* rewriteField that names an anonymous field by the spelling of its type,
\* whatever the type
rewriteField_embeddedAny(c, structs, f, s, e) ==
    LET line == FieldPos(structs, f)
        fieldName ==
            IF Len(f.names) # 0 THEN firstName(c, f.names)
            ELSE IF ~c.skipUnexportedFields THEN ExprString(structs, f.type)
            ELSE <<>>
    IN  IF ~(s <= line /\ line <= e) THEN f
        ELSE IF fieldName = <<>> THEN f
        ELSE IF ExprString(structs, f.type) = c.from
        THEN [f EXCEPT !.type = NewIdent(c.to)]
        ELSE f

\* the body of rewriteFunc's loop for one field f: f, its type replaced when
\* it is in the span, has a name and spells c.from
rewriteField(c, structs, f, s, e) ==
    LET line == FieldPos(structs, f)
        fieldName ==
            IF Len(f.names) # 0 THEN firstName(c, f.names)
            ELSE IF f.type.kind = "Ident" /\ ~c.skipUnexportedFields
            THEN f.type.name
            ELSE <<>>
    IN  IF ~(s <= line /\ line <= e) THEN f
        ELSE IF Len(f.names) = 0 /\ f.type.kind # "Ident" THEN f
        ELSE IF fieldName = <<>> THEN f
        ELSE IF ExprString(structs, f.type) = c.from
        THEN [f EXCEPT !.type = NewIdent(c.to)]
        ELSE f

\* rewriteFunc on the struct type node ref: each of its fields in turn
rewriteFunc(c, structs, ref, s, e) ==
    [structs EXCEPT ![ref].fields =
        [i \in 1..Len(@) |-> rewriteField(c, structs, @[i], s, e)]]

RECURSIVE inspectExpr(_, _, _, _, _)
RECURSIVE inspectFields(_, _, _, _, _, _)
\* ast.Inspect below a type expression: a struct type node is rewritten when
\* it is met, and then the types its fields now have are walked
inspectExpr(c, structs, x, s, e) ==
    CASE x.kind = "StructType" ->
            inspectFields(c, rewriteFunc(c, structs, x.ref, s, e), x.ref, 1, s, e)
      [] x.kind \in {"StarExpr", "ArrayType", "SelectorExpr"} ->
            inspectExpr(c, structs, x.x[1], s, e)
      [] OTHER -> structs

inspectFields(c, structs, ref, i, s, e) ==
    IF i > Len(structs[ref].fields) THEN structs
    ELSE inspectFields(c,
             inspectExpr(c, structs, structs[ref].fields[i].type, s, e),
             ref, i + 1, s, e)

RECURSIVE inspectDecls(_, _, _, _, _, _)
inspectDecls(c, structs, decls, i, s, e) ==
    IF i > Len(decls) THEN structs
    ELSE inspectDecls(c, inspectExpr(c, structs, decls[i].type, s, e),
                      decls, i + 1, s, e)

\* config.rewrite: the file after rewriteFunc has met every struct type node
rewrite(c, file, s, e) ==
    [file EXCEPT !.structs = inspectDecls(c, file.structs, file.decls, 1, s, e)]

\* format.Node: the declarations in order, each type by its spelling
formatNode(file) ==
    [i \in 1..Len(file.decls) |->
        <<file.decls[i].kind, file.decls[i].names,
          ExprString(file.structs, file.decls[i].type)>>]

\* config.format: the text, written to the file under -w, or with -w the
\* error of a write that fails
format(c, file) ==
    {[text |-> <<formatNode(file)>>,
      written |-> IF c.write THEN <<formatNode(file)>> ELSE <<>>,
      err |-> nil]}
    \cup (IF c.write
          THEN {[text |-> <<>>, written |-> <<>>,
                 err |-> Error(WriteError, <<c.file>>)]}
          ELSE {})

(* ------------------------------- inputs -------------------------------- *)

\* the characters -line arguments are made of
LineChars == {"2", "4", ",", "-", "x"}

\* every string of at most n of these characters
LineStrings(n) == UNION {[1..k -> LineChars] : k \in 0..n}

\* -line arguments of each kind: none, one line, a range, a reversed range,
\* no number
Lines == {<<>>, <<"4">>, <<"2", ",", "4">>, <<"4", ",", "2">>, <<"x">>}

StructNames == {<<>>, s_foo, s_bar, s_Two}
FieldNames == {<<>>, s_bar, s_Baz}
FromTypes == {s_int, s_starT, s_pT, s_structxRaw}
ToTypes == {s_Raw, s_int}

\* the configurations parseConfig can return
Configs ==
    {Config(file, write, line, structName, fieldName, all, from, to, skip) :
        file \in {<<>>, s_file}, write \in BOOLEAN, line \in Lines,
        structName \in StructNames, fieldName \in FieldNames,
        all \in BOOLEAN, from \in FromTypes, to \in ToTypes,
        skip \in BOOLEAN}

\* the configurations of every -line argument up to MaxLineLen characters
LineConfigs ==
    {Config(s_file, FALSE, line, <<>>, <<>>, all, s_int, s_Raw, skip) :
        line \in LineStrings(MaxLineLen), all \in BOOLEAN, skip \in BOOLEAN}

\* config.parse: the tree of the file named, or the parser's error
parse(c) ==
    {[node |-> f, err |-> nil] : f \in Files}
    \cup {[node |-> NoFile, err |-> Error(ParseError, <<c.file>>)]}

(* ------------------------------- run() --------------------------------- *)

NoOutput == [printed |-> <<>>, written |-> <<>>]

Begin(c) ==
    /\ pc = "validate"
    /\ cfg = c
    /\ node = NoFile
    /\ parsed = NoFile
    /\ prev = NoFile
    /\ start = 0
    /\ end = 0
    /\ err = nil
    /\ out = NoOutput
    /\ passes = 0

Init == \E c \in Configs : Begin(c)

InitLine == \E c \in LineConfigs : Begin(c)

\* err = cfg.validate()
Validate ==
    /\ pc = "validate"
    /\ err' = validate(cfg)
    /\ pc' = IF validate(cfg) = nil THEN "parse" ELSE "exit"
    /\ UNCHANGED <<cfg, node, parsed, prev, start, end, out, passes>>

\* node, err := cfg.parse()
Parse ==
    /\ pc = "parse"
    /\ \E r \in parse(cfg) :
        /\ node' = r.node
        /\ parsed' = r.node
        /\ prev' = r.node
        /\ err' = r.err
        /\ pc' = IF r.err = nil THEN "findSelection" ELSE "exit"
    /\ UNCHANGED <<cfg, start, end, out, passes>>

\* the step of run() without its return on the selector's error
FindSelection_ignoringError ==
    /\ pc = "findSelection"
    /\ \E r \in findSelection(cfg, node) :
        /\ start' = r.start
        /\ end' = r.end
        /\ err' = r.err
        /\ pc' = "rewrite"
    /\ UNCHANGED <<cfg, node, parsed, prev, out, passes>>

\* start, end, err := cfg.findSelection(node)
FindSelection ==
    /\ pc = "findSelection"
    /\ \E r \in findSelection(cfg, node) :
        /\ start' = r.start
        /\ end' = r.end
        /\ err' = r.err
        /\ pc' = IF r.err = nil THEN "rewrite" ELSE "exit"
    /\ UNCHANGED <<cfg, node, parsed, prev, out, passes>>

\* one call of cfg.rewrite(node, start, end): the tree is mutated in place and
\* the span is recorded in the config; the error returned is always nil
Pass ==
    /\ prev' = node
    /\ node' = rewrite(cfg, node, start, end)
    /\ cfg' = [cfg EXCEPT !.start = start, !.end = end]
    /\ passes' = passes + 1
    /\ UNCHANGED <<parsed, start, end, err, out>>

\* rewrittenNode, err := cfg.rewrite(node, start, end)
Rewrite ==
    /\ pc = "rewrite"
    /\ Pass
    /\ pc' = "format"

\* out, err := cfg.format(rewrittenNode), then the print unless -w
Format ==
    /\ pc = "format"
    /\ \E r \in format(cfg, node) :
        /\ out' = [printed |-> IF r.err = nil /\ ~cfg.write THEN r.text
                               ELSE <<>>,
                   written |-> r.written]
        /\ err' = r.err
        /\ pc' = IF r.err = nil THEN "done" ELSE "exit"
    /\ UNCHANGED <<cfg, node, parsed, prev, start, end, passes>>

\* cfg.rewrite called once more on the tree it has rewritten, with the same
\* span and the same from and to
RewriteAgain ==
    /\ pc = "format"
    /\ passes < MaxPasses
    /\ Pass
    /\ pc' = "format"

Next == Validate \/ Parse \/ FindSelection \/ Rewrite \/ Format

NextAgain == Next \/ RewriteAgain

\* run()
Spec == Init /\ [][Next]_vars

\* run() on every -line argument
SpecLine == InitLine /\ [][Next]_vars

\* run() with the rewrite repeated
SpecAgain == Init /\ [][NextAgain]_vars

(* --------------------- vocabulary of the properties -------------------- *)

\* every field of every struct type node of the parsed file, as <<node, index>>
Slots ==
    UNION {{<<ref, i>> : i \in 1..Len(parsed.structs[ref].fields)} :
              ref \in DOMAIN parsed.structs}

\* the field as parsed, and as it is now
Was(slot) == parsed.structs[slot[1]].fields[slot[2]]
Now(slot) == node.structs[slot[1]].fields[slot[2]]

\* the spelling of the field's type and the field's start line, as parsed
Spelled(slot) == ExprString(parsed.structs, Was(slot).type)
LineOf(slot) == FieldPos(parsed.structs, Was(slot))
InSpan(slot) == start <= LineOf(slot) /\ LineOf(slot) <= end

Anonymous(slot) == Len(Was(slot).names) = 0
Declares(slot, name) ==
    \E j \in 1..Len(Was(slot).names) : Was(slot).names[j].name = name

Exported(name) == name # <<>> /\ Head(name) \in Upper

\* the field has a representative name: a declared name the visibility
\* filter lets through, or, unfiltered, the name of an embedded type
Representable(slot) ==
    IF Anonymous(slot)
    THEN Was(slot).type.kind = "Ident" /\ ~cfg.skipUnexportedFields
    ELSE \E j \in 1..Len(Was(slot).names) :
            ~cfg.skipUnexportedFields \/ Exported(Was(slot).names[j].name)

Changed(slot) == Now(slot).type # Was(slot).type

\* rewrite has run (once, under Spec)
Rewritten == passes >= 1

\* the locator is "all": no line and no record name
AllLocator == cfg.line = <<>> /\ cfg.structName = <<>>

\* nothing but field types differs from the parsed file
SameShape ==
    /\ node.decls = parsed.decls
    /\ node.lines = parsed.lines
    /\ DOMAIN node.structs = DOMAIN parsed.structs
    /\ \A ref \in DOMAIN parsed.structs :
        /\ node.structs[ref].line = parsed.structs[ref].line
        /\ node.structs[ref].rbrace = parsed.structs[ref].rbrace
        /\ Len(node.structs[ref].fields) = Len(parsed.structs[ref].fields)
    /\ \A slot \in Slots :
        /\ Now(slot).names = Was(slot).names
        /\ Now(slot).tag = Was(slot).tag

(* ------------------------------ properties ----------------------------- *)

\* C1: after rewrite(node, start, end) a field's type is the simple reference
\* `to` exactly when its original start line is in [start, end], it has a
\* representative name and its type was spelled `from`; every other field
\* keeps its type, and names, tags and the order of fields are as parsed.
C1_RewriteExactlyMatching ==
    Rewritten =>
        /\ SameShape
        /\ \A slot \in Slots :
             Now(slot).type =
                IF InSpan(slot) /\ Representable(slot) /\ Spelled(slot) = cfg.from
                THEN NewIdent(cfg.to)
                ELSE Was(slot).type

\* a run that rewrote a field and left alone another field of the same
\* spelling that lies outside the span
C1_Witness ==
    /\ pc = "done"
    /\ cfg.from # cfg.to
    /\ \E slot \in Slots : Changed(slot) /\ Now(slot).type = NewIdent(cfg.to)
    /\ \E slot \in Slots :
        ~InSpan(slot) /\ Spelled(slot) = cfg.from /\ ~Changed(slot)

\* C2: with the "all" locator findSelection returns (1, line count), and
\* with the visibility filter off the rewrite gives every named field of
\* every record whose type was spelled `from` the type `to` and leaves the
\* fields of other types alone.
C2_AllSelectsEveryField ==
    AllLocator =>
        /\ pc \in {"rewrite", "format", "done"} =>
              start = 1 /\ end = parsed.lines
        /\ Rewritten /\ ~cfg.skipUnexportedFields =>
              \A slot \in Slots :
                 /\ ~Anonymous(slot) /\ Spelled(slot) = cfg.from =>
                       Now(slot).type = NewIdent(cfg.to)
                 /\ Spelled(slot) # cfg.from => ~Changed(slot)

\* an "all" run over a file of several records that rewrote a field of a
\* named record and a field of a record the index has no name for
C2_Witness ==
    /\ pc = "done"
    /\ AllLocator
    /\ ~cfg.skipUnexportedFields
    /\ cfg.from # cfg.to
    /\ \E a \in Slots, b \in Slots :
        /\ Changed(a)
        /\ Changed(b)
        /\ collectStructs(parsed)[a[1]] = s_foo
        /\ collectStructs(parsed)[b[1]] = <<>>
    /\ \E slot \in Slots : Spelled(slot) # cfg.from

\* the record selected is named as asked and the field selected declares
\* the name asked for, with its line extent as the span
SelectedField(slot) ==
    /\ collectStructs(parsed)[slot[1]] = cfg.structName
    /\ Declares(slot, cfg.fieldName)
    /\ start = LineOf(slot)
    /\ end = FieldEnd(parsed.structs, Was(slot))

\* C3: with a record name and a field name given, only the given field is
\* selected: the span is the line extent of the field of that record that
\* declares the name, and the rewrite changes the type of no other field.
C3_OnlyTheGivenField ==
    Rewritten /\ cfg.line = <<>> /\ cfg.structName # <<>> /\ cfg.fieldName # <<>> =>
        \E given \in Slots :
            /\ SelectedField(given)
            /\ \A slot \in Slots : Changed(slot) => slot = given

\* the spelling holds the text of a record type literal
HasRecordLiteral(spelling) ==
    \E i \in 1..Len(spelling) :
        /\ i + Len(s_struct) - 1 <= Len(spelling)
        /\ SubSeq(spelling, i, i + Len(s_struct) - 1) = s_struct

\* the field, as the tree is now, is one rewrite would take: in the span, with
\* a representative name, its type spelled `from`
TakenNow(slot) ==
    LET f == Now(slot)
        line == FieldPos(node.structs, f)
    IN  /\ start <= line /\ line <= end
        /\ IF Len(f.names) = 0
           THEN f.type.kind = "Ident" /\ ~cfg.skipUnexportedFields
           ELSE \E j \in 1..Len(f.names) :
                   ~cfg.skipUnexportedFields \/ Exported(f.names[j].name)
        /\ ExprString(node.structs, f.type) = cfg.from

\* C4 (as stated): a second run of the rewrite with the same from and to
\* performs no further mutation: rewrite(rewrite(t)) = rewrite(t).
C4_Idempotent == passes >= 2 => node = prev

\* C4 (amended): when `from` spells no record type literal, a second run of
\* the rewrite leaves the tree as the first run left it, and, for from # to,
\* after a run no field the rewrite would take is still spelled `from`.
C4_IdempotentWithoutRecordLiteral ==
    ~HasRecordLiteral(cfg.from) =>
        /\ passes >= 1 /\ cfg.from # cfg.to =>
              \A slot \in Slots : ~TakenNow(slot)
        /\ passes >= 2 => node = prev

\* a second run over a tree the first run changed
C4_Witness ==
    /\ passes >= 2
    /\ ~HasRecordLiteral(cfg.from)
    /\ cfg.from # cfg.to
    /\ node # parsed
    /\ node = prev

\* the places of the commas of the -line argument
Commas == {i \in 1..Len(cfg.line) : cfg.line[i] = ","}

\* the one or two tokens of a -line argument with at most one comma
Tokens ==
    IF Commas = {} THEN <<cfg.line>>
    ELSE LET i == CHOOSE j \in Commas : TRUE
         IN  <<SubSeq(cfg.line, 1, i - 1),
               SubSeq(cfg.line, i + 1, Len(cfg.line))>>

DigitOf ==
    ("0" :> 0) @@ ("1" :> 1) @@ ("2" :> 2) @@ ("3" :> 3) @@ ("4" :> 4)
    @@ ("5" :> 5) @@ ("6" :> 6) @@ ("7" :> 7) @@ ("8" :> 8) @@ ("9" :> 9)

Unsigned(tok) ==
    IF tok # <<>> /\ Head(tok) \in {"+", "-"} THEN Tail(tok) ELSE tok

\* the token is an integer numeral
IsInteger(tok) ==
    /\ Unsigned(tok) # <<>>
    /\ \A i \in 1..Len(Unsigned(tok)) : Unsigned(tok)[i] \in DOMAIN DigitOf

RECURSIVE PlaceValues(_, _)
\* the sum of the digits from place i on, each times its power of ten
PlaceValues(ds, i) ==
    IF i > Len(ds) THEN 0
    ELSE DigitOf[ds[i]] * 10^(Len(ds) - i) + PlaceValues(ds, i + 1)

\* the integer the numeral denotes
IntegerOf(tok) ==
    IF Head(tok) = "-" THEN 0 - PlaceValues(Unsigned(tok), 1)
    ELSE PlaceValues(Unsigned(tok), 1)

\* findSelection has returned
Selected ==
    /\ parsed # NoFile
    /\ pc \in {"rewrite", "format", "done"} \/ (pc = "exit" /\ passes = 0)

\* findSelection has returned an error
Failed == pc = "exit" /\ passes = 0

\* C5: for a -line argument "N,M" of integers lineSelection returns (N, M)
\* when N <= M and fails with the range error, returning no span, when
\* N > M; for "N" it returns (N, N); it fails with a parse error when a token
\* is not an integer; the tree plays no part.
C5_LineSelection ==
    Selected /\ cfg.line # <<>> /\ Cardinality(Commas) <= 1 =>
        IF \E t \in 1..Len(Tokens) : ~IsInteger(Tokens[t])
        THEN Failed /\ err.msg = SyntaxError /\ start = 0 /\ end = 0
        ELSE LET N == IntegerOf(Tokens[1])
                 M == IntegerOf(Tokens[Len(Tokens)])
             IN  IF N <= M
                 THEN ~Failed /\ err = nil /\ start = N /\ end = M
                 ELSE Failed /\ err.msg = RangeError
                      /\ start = 0 /\ end = 0

\* a range "N,M" with N < M was returned as the span
C5_Witness ==
    /\ pc = "rewrite"
    /\ Cardinality(Commas) = 1
    /\ start = IntegerOf(Tokens[1])
    /\ end = IntegerOf(Tokens[2])
    /\ start < end

\* the struct type nodes the index holds under the requested record name
Named ==
    {p \in DOMAIN collectStructs(parsed) :
        collectStructs(parsed)[p] = cfg.structName}

\* C6: record selection succeeds exactly when the index holds an entry of
\* the requested name, and then, no field name given, the span is the extent
\* of a record of that name; with no entry it fails with "record not found";
\* with a record of the name none of whose fields declares the requested
\* field name it fails with another error, which carries both names.
C6_RecordSelection ==
    Selected /\ cfg.line = <<>> /\ cfg.structName # <<>> =>
        /\ err.msg = NoStructError <=> Named = {}
        /\ Named = {} => Failed
        /\ cfg.fieldName = <<>> =>
            /\ ~Failed <=> Named # {}
            /\ ~Failed =>
                 \E p \in Named : /\ start = parsed.structs[p].line
                                  /\ end = parsed.structs[p].rbrace
        /\ cfg.fieldName # <<>> /\ ~Failed =>
             \E slot \in Slots : slot[1] \in Named /\ SelectedField(slot)
        /\ cfg.fieldName # <<>> /\ Failed /\ Named # {} =>
            /\ err.msg = NoFieldError
            /\ err.args = <<cfg.structName, cfg.fieldName>>
            /\ \E p \in Named :
                 \A slot \in Slots : slot[1] = p => ~Declares(slot, cfg.fieldName)

\* "field not found" for a record name that two records carry, one of which
\* declares the field
C6_Witness ==
    /\ pc = "exit"
    /\ err.msg = NoFieldError
    /\ Cardinality(Named) > 1
    /\ \E slot \in Slots : slot[1] \in Named /\ Declares(slot, cfg.fieldName)

SelectorErrors ==
    {RangeError, SyntaxError, NoStructError, NoFieldError, NoLocatorError}

\* C7: every failure of the Selector comes before rewrite is invoked: the
\* tree is the parsed tree and nothing is output; rewrite returns no error,
\* so no run that has mutated the tree fails.
C7_FailuresBeforeRewrite ==
    /\ pc = "exit" /\ err.msg \in SelectorErrors =>
          node = parsed /\ passes = 0 /\ out = NoOutput
    /\ passes = 0 => node = parsed /\ out = NoOutput
    /\ pc = "format" => err = nil
    /\ pc = "exit" /\ passes > 0 => err.msg \notin SelectorErrors

\* a Selector failure on a tree that holds a field of the `from` spelling
C7_Witness ==
    /\ pc = "exit"
    /\ parsed # NoFile
    /\ err.msg \in SelectorErrors
    /\ \E slot \in Slots : Spelled(slot) = cfg.from /\ ~Anonymous(slot)

\* C8: with skipUnexportedFields a field is rewritten only if one of its
\* declared names is export-visible, the representative name being the first
\* such name; a field with no such name and every anonymous field keep
\* their types, even when spelled `from` inside the span.
C8_VisibilityFilter ==
    Rewritten /\ cfg.skipUnexportedFields =>
        \A slot \in Slots :
            LET names == Was(slot).names
                visible == {j \in 1..Len(names) : Exported(names[j].name)}
            IN  /\ Changed(slot) => visible # {}
                /\ visible = {} => ~Changed(slot) /\ firstName(cfg, names) = <<>>
                /\ visible # {} =>
                     firstName(cfg, names) =
                        names[CHOOSE j \in visible : \A k \in visible : j <= k].name

\* a filtered run that rewrote a field whose second name is the visible one
\* and left alone an unexported field of the same spelling inside the span
C8_Witness ==
    /\ pc = "done"
    /\ cfg.skipUnexportedFields
    /\ cfg.from # cfg.to
    /\ \E slot \in Slots :
        /\ Changed(slot)
        /\ ~Exported(Was(slot).names[1].name)
    /\ \E slot \in Slots :
        /\ ~Anonymous(slot)
        /\ InSpan(slot) /\ Spelled(slot) = cfg.from /\ ~Changed(slot)

ValidationErrors ==
    {NoFileError, NoLocatorError, ExclusiveError, FieldWithoutStructError}

\* validate has rejected the configuration
Rejected == pc = "exit" /\ parsed = NoFile /\ err.msg \in ValidationErrors

\* validate has let the configuration through
Passed == pc # "validate" /\ ~Rejected

\* the locator forms the configuration supplies
Supplied ==
    {form \in {"line", "struct", "all"} :
        \/ form = "line" /\ cfg.line # <<>>
        \/ form = "struct" /\ cfg.structName # <<>>
        \/ form = "all" /\ cfg.all}

\* C9 (as stated): a configuration passes validate only if exactly one of
\* the three locator forms is supplied, so that findSelection is never
\* reached with more than one form populated.
C9_ExactlyOneLocator == Passed => Cardinality(Supplied) = 1

\* C9 (amended): a configuration passes validate only if it names a file,
\* supplies at least one locator form, does not supply both a line string and
\* a record name, and gives a field name only with a record name; the "all"
\* flag may come with a line string or a record name.  A configuration that
\* breaks one of these is rejected before parsing and before the Selector.
C9_ValidatedLocator ==
    /\ Passed =>
        /\ cfg.file # <<>>
        /\ Supplied # {}
        /\ ~({"line", "struct"} \subseteq Supplied)
        /\ cfg.fieldName # <<>> => "struct" \in Supplied
    /\ pc # "validate"
       /\ (\/ cfg.file = <<>>
           \/ Supplied = {}
           \/ {"line", "struct"} \subseteq Supplied
           \/ cfg.fieldName # <<>> /\ "struct" \notin Supplied)
       => Rejected
    /\ Rejected =>
        node = NoFile /\ start = 0 /\ end = 0 /\ passes = 0 /\ out = NoOutput

\* findSelection was reached with a line string and the "all" flag, and took
\* the line string
C9_Witness ==
    /\ pc = "rewrite"
    /\ Supplied = {"line", "all"}
    /\ start = IntegerOf(Tokens[1])

\* C10: with the visibility filter off, an anonymous field in the span whose
\* type is a simple reference spelled `from` is rewritten to `to`; an
\* anonymous field whose type is not a simple reference keeps its type, even
\* when spelled `from`.
C10_AnonymousFields ==
    Rewritten /\ ~cfg.skipUnexportedFields =>
        \A slot \in Slots :
            Anonymous(slot) =>
                /\ Was(slot).type.kind = "Ident" /\ InSpan(slot)
                   /\ Spelled(slot) = cfg.from
                   => Now(slot).type = NewIdent(cfg.to)
                /\ Was(slot).type.kind # "Ident" => ~Changed(slot)

\* an unfiltered run that rewrote an embedded simple reference
C10_Witness ==
    /\ pc = "done"
    /\ ~cfg.skipUnexportedFields
    /\ cfg.from # cfg.to
    /\ \E slot \in Slots :
        /\ Anonymous(slot)
        /\ Was(slot).type.kind = "Ident"
        /\ Changed(slot)
        /\ ExprString(node.structs, Now(slot).type) = cfg.to
    /\ \E slot \in Slots :
        Anonymous(slot) /\ Was(slot).type.kind # "Ident" /\ InSpan(slot)

====
